---- MODULE Spec2Model ----
(***************************************************************************)
(* Task Pilot: the active-timer state machine of App.tsx and the network   *)
(* recovery layer of lib/networkUtils.ts (calculateBackoff,                *)
(* isRetryableError, retryWithBackoff, RequestQueue).                      *)
(*                                                                         *)
(* Seven specifications share the module's variables; each one leaves the   *)
(* variables of the other components untouched:                            *)
(*   SpecBackoff  calculateBackoff applied to drawn inputs                  *)
(*   SpecClassify isRetryableError applied to drawn errors                  *)
(*   SpecSync     the App's timer and periodic save when no flush fails     *)
(*   SpecRetry    one execution of retryWithBackoff                         *)
(*   SpecQueue    one RequestQueue under add / processQueue / clear         *)
(*   SpecDrain    the same queue, add() only between drains, fair drains    *)
(*   Spec         the App component: timer, periodic save, logout, delete   *)
(* The App's online / offline handlers touch nothing but isOnline and run   *)
(* in SpecQueue, beside the queue they would have to drain.                 *)
(***************************************************************************)
EXTENDS Integers, Sequences, FiniteSets, TLC

VARIABLES
    \* ---- calculateBackoff under test ----
    bArgs,          \* the drawn arguments [k, d0, dmax, m]
    bResult,        \* << >>, or <<the last result (times BackoffScale)>>
    \* ---- isRetryableError under test ----
    cError,         \* the drawn error
    cResult,        \* << >>, or <<"retryable" | "terminal" | "throws">>
    \* ---- one retryWithBackoff execution ----
    options,        \* [maxRetries, initialDelay, maxDelay, backoffMultiplier]
    rpc,            \* "loop" | "awaitFn" | "sleep" | "returned" | "threw"
    attempt,        \* the loop variable
    lastError,      \* the last error caught (NoError: none yet)
    invocations,    \* how many times fn() was called
    outcomes,       \* per settled call: "ok" | "retryable" | "terminal"
    delays,         \* the delays slept so far (times BackoffScale)
    \* ---- one RequestQueue ----
    queue,          \* this.queue
    processing,     \* this.processing
    dpc,            \* processQueue: "idle" | "awaitFn" | "sleep" | "crashed"
    item,           \* the entry processQueue is working on (UndefinedEntry: none)
    itemIdx,        \* where the object `item` sits in queue, 0 if nowhere
    clock,          \* Date.now()
    \* ---- the App component ----
    user,           \* whether the state `user` is set (not null)
    tasks,          \* the state `tasks`: task id -> task.time
    activeTaskId,   \* the state `activeTaskId` (Undefined: null)
    timerIntervalRef, \* timerIntervalRef.current (0: undefined)
    intervals,      \* the tick callbacks scheduled by window.setInterval
    lastSaveAge,    \* Date.now() - lastSaveTimeRef.current, in seconds
    saveInterval,   \* seconds since the save effect's setInterval was set (-1: none)
    inflight,       \* saveTimerToServer's unsettled updateTaskInSupabase calls
    logout,         \* where handleLogout stands
    pendingDelete,  \* handleDeleteTask calls awaiting deleteTaskFromSupabase
    fetching,       \* fetchTasks: "no" (not called) | "pending" | "done"
    server,         \* the remote store: task id -> stored time
    isOnline,       \* the state `isOnline`
    signal,         \* completion toasts raised by the last step
    errorToast,     \* whether the last step raised an error toast
    page,           \* "loaded", or "unloaded" once beforeunload has fired
    beacons         \* the navigator.sendBeacon calls made

backoffVars == <<bArgs, bResult>>
classifyVars == <<cError, cResult>>
retryVars == <<options, rpc, attempt, lastError, invocations, outcomes, delays>>
queueVars == <<queue, processing, dpc, item, itemIdx, clock>>
appVars ==
    <<user, tasks, activeTaskId, timerIntervalRef, intervals, lastSaveAge,
      saveInterval, inflight, logout, pendingDelete, fetching, server, isOnline,
      signal, errorToast, page, beacons>>
vars == <<backoffVars, classifyVars, retryVars, queueVars, appVars>>

(***************************************************************************)
(* Bounds of the model.                                                    *)
(***************************************************************************)
\* Math.random() is drawn as j / JitterSteps for j in 0 .. JitterSteps - 1.
JitterSteps == 4
\* Largest attemptNumber handed to calculateBackoff, largest maxRetries option.
MaxAttempt == 3

(***************************************************************************)
(* Program constants.                                                      *)
(***************************************************************************)
\* retryWithBackoff's defaults (networkUtils.ts:87-90).
DefaultMaxRetries == 3
DefaultInitialDelay == 1000
DefaultMaxDelay == 30000
DefaultBackoffMultiplier == 2

\* JavaScript's undefined / null.
Undefined == "undefined"

Min(a, b) == IF a <= b THEN a ELSE b
Max(a, b) == IF a >= b THEN a ELSE b

RECURSIVE Pow(_, _)
\* Math.pow on a non-negative integer exponent.
Pow(b, e) == IF e = 0 THEN 1 ELSE b * Pow(b, e - 1)

(***************************************************************************)
(* calculateBackoff (networkUtils.ts:62-77).                               *)
(* The result is a real number; the model returns it multiplied by         *)
(* BackoffScale, so that delay + (j / JitterSteps) * 0.3 * delay is the    *)
(* integer delay * (10 * JitterSteps + 3 * j).                             *)
(***************************************************************************)
BackoffScale == 10 * JitterSteps

\* Math.min(initialDelay * Math.pow(backoffMultiplier, attemptNumber), maxDelay)
BackoffDelay(attemptNumber, initialDelay, maxDelay, backoffMultiplier) ==
    Min(initialDelay * Pow(backoffMultiplier, attemptNumber), maxDelay)

\* A broken jitter: Math.random() * 0.5 * delay.
JitterWide(delay, j) == 5 * delay * j

\* Math.random() * 0.3 * delay, times BackoffScale; j is the draw.
Jitter(delay, j) == 3 * delay * j

calculateBackoff(attemptNumber, initialDelay, maxDelay, backoffMultiplier, j) ==
    LET delay == BackoffDelay(attemptNumber, initialDelay, maxDelay, backoffMultiplier)
    IN  delay * BackoffScale + Jitter(delay, j)

(***************************************************************************)
(* isRetryableError (networkUtils.ts:27-57).                               *)
(* An error is a record [name, status, message]; status 0 stands for a     *)
(* missing status, and a message is one of the texts below.                *)
(***************************************************************************)
Messages ==
    {"fetch failed", "Failed to fetch", "Network request failed", "bad request",
     "net::ERR_INTERNET_DISCONNECTED", "net::ERR_NETWORK_CHANGED"}

\* String.prototype.includes on the messages above.
Includes(message, pattern) ==
    CASE pattern = "fetch" -> message \in {"fetch failed", "Failed to fetch"}
      [] pattern = "Failed to fetch" -> message = "Failed to fetch"
      [] pattern = "Network request failed" -> message = "Network request failed"
      [] pattern = "ERR_INTERNET_DISCONNECTED" -> message = "net::ERR_INTERNET_DISCONNECTED"
      [] pattern = "ERR_NETWORK_CHANGED" -> message = "net::ERR_NETWORK_CHANGED"
      [] OTHER -> FALSE

\* A classifier that takes every status from 400 up for a server error.
isRetryableErrorFrom400(error) ==
    \/ error.name = "TypeError" /\ Includes(error.message, "fetch")
    \/ error.name = "AbortError"
    \/ error.status >= 400 /\ error.status < 600
    \/ Includes(error.message, "Failed to fetch")
    \/ Includes(error.message, "Network request failed")

isRetryableError(error) ==
    \/ error.name = "TypeError" /\ Includes(error.message, "fetch")
    \/ error.name = "AbortError"
    \/ error.status >= 500 /\ error.status < 600
    \/ error.status = 429
    \/ Includes(error.message, "Failed to fetch")
    \/ Includes(error.message, "Network request failed")
    \/ Includes(error.message, "ERR_INTERNET_DISCONNECTED")
    \/ Includes(error.message, "ERR_NETWORK_CHANGED")

\* The failures an operation is made to throw.
Err(name, status, message) == [name |-> name, status |-> status, message |-> message]
Errors ==
    { Err("Error", 503, "bad request"), Err("Error", 429, "bad request"),
      Err("Error", 400, "bad request"), Err("Error", 404, "bad request"),
      Err("TypeError", 0, "Failed to fetch"), Err("AbortError", 0, "bad request"),
      Err("Error", 0, "bad request") }

NoError == Err("none", 0, "none")

\* error.message.includes('fetch') (networkUtils.ts:29) is read without `?.`:
\* on a TypeError that carries no message the classifier itself throws.
isRetryableErrorThrows(error) == error.name = "TypeError" /\ error.message = Undefined

\* What a call isRetryableError(error) comes to.
Classification(error) ==
    IF isRetryableErrorThrows(error) THEN "throws"
    ELSE IF isRetryableError(error) THEN "retryable"
    ELSE "terminal"
NoArgs == [k |-> 0, d0 |-> 0, dmax |-> 0, m |-> 0]
NoOptions ==
    [maxRetries |-> 0, initialDelay |-> 0, maxDelay |-> 0, backoffMultiplier |-> 0]

\* The components a specification does not run stay in these states.
BackoffIdle == bArgs = NoArgs /\ bResult = << >>
ClassifyIdle == cError = NoError /\ cResult = << >>
RetryIdle ==
    /\ options = NoOptions /\ rpc = "idle" /\ attempt = 0 /\ lastError = NoError
    /\ invocations = 0 /\ outcomes = << >> /\ delays = << >>

(***************************************************************************)
(* SpecBackoff: calculateBackoff on every drawn input.                     *)
(***************************************************************************)
InitialDelays == {0, 1, 3, DefaultInitialDelay}
MaxDelays == {2, 10, DefaultMaxDelay}
Multipliers == {1, DefaultBackoffMultiplier, 3}

BackoffArgs ==
    [k : 0 .. MaxAttempt, d0 : InitialDelays, dmax : MaxDelays, m : Multipliers]

\* A caller evaluates calculateBackoff(k, d0, dmax, m); j is Math.random()'s draw.
CallBackoff ==
    /\ bArgs \in BackoffArgs
    /\ \E j \in 0 .. JitterSteps - 1 :
         bResult' = <<calculateBackoff(bArgs.k, bArgs.d0, bArgs.dmax, bArgs.m, j)>>
    /\ UNCHANGED bArgs
    /\ UNCHANGED <<classifyVars, retryVars, queueVars, appVars>>

\* The caller picks the next arguments.
NextBackoffArgs ==
    /\ bResult # << >>
    /\ bArgs' \in BackoffArgs
    /\ bResult' = << >>
    /\ UNCHANGED <<classifyVars, retryVars, queueVars, appVars>>

SpecBackoffInit == bArgs \in BackoffArgs /\ bResult = << >>

(***************************************************************************)
(* SpecClassify: isRetryableError on every drawn error.                    *)
(***************************************************************************)
ErrorNames == {"Error", "TypeError", "AbortError"}
Statuses == {0, 200, 400, 401, 403, 404, 429, 499, 500, 503, 599, 600}
ClassifyErrors ==
    [name : ErrorNames, status : Statuses, message : Messages \cup {Undefined}]

\* A caller evaluates isRetryableError(cError).
Classify ==
    /\ cResult = << >>
    /\ cResult' = <<Classification(cError)>>
    /\ UNCHANGED cError
    /\ UNCHANGED <<backoffVars, retryVars, queueVars, appVars>>

\* The caller meets the next error.
NextError ==
    /\ cResult # << >>
    /\ cError' \in ClassifyErrors
    /\ cResult' = << >>
    /\ UNCHANGED <<backoffVars, retryVars, queueVars, appVars>>

SpecClassifyInit == cError \in ClassifyErrors /\ cResult = << >>

(***************************************************************************)
(* retryWithBackoff (networkUtils.ts:82-126), one execution.  fn is the    *)
(* caller's operation: each call of it settles with success or with one    *)
(* of RetryErrors.                                                         *)
(***************************************************************************)
RetryErrors ==
    { Err("Error", 503, "bad request"), Err("Error", 400, "bad request"),
      Err("TypeError", 0, "Failed to fetch") }

RetryOptionSets ==
    [maxRetries : -1 .. MaxAttempt, initialDelay : {1, DefaultInitialDelay},
     maxDelay : {2, DefaultMaxDelay}, backoffMultiplier : {1, DefaultBackoffMultiplier}]

\* An off-by-one loop bound: attempt <= maxRetries + 1.
LoopConditionOffByOne(att, maxRetries) == att <= maxRetries + 1

\* for (let attempt = 0; attempt <= maxRetries; attempt++)
LoopCondition(att, maxRetries) == att <= maxRetries

\* Line 96-98: the loop test, then `return await fn()` starts the call; line 125
\* when the loop is left.
RetryLoop ==
    /\ rpc = "loop"
    /\ IF LoopCondition(attempt, options.maxRetries)
       THEN /\ rpc' = "awaitFn"
            /\ invocations' = invocations + 1
       ELSE /\ rpc' = "threw"
            /\ UNCHANGED invocations
    /\ UNCHANGED <<options, attempt, lastError, outcomes, delays>>
    /\ UNCHANGED <<backoffVars, classifyVars, queueVars, appVars>>

\* Line 98: fn() resolved, its value is returned.
RetryFnResolves ==
    /\ rpc = "awaitFn"
    /\ rpc' = "returned"
    /\ outcomes' = Append(outcomes, "ok")
    /\ UNCHANGED <<options, attempt, lastError, invocations, delays>>
    /\ UNCHANGED <<backoffVars, classifyVars, queueVars, appVars>>

\* Lines 99-122: fn() rejected with error; j is Math.random()'s draw.
RetryFnRejects ==
    /\ rpc = "awaitFn"
    /\ \E error \in RetryErrors, j \in 0 .. JitterSteps - 1 :
         /\ lastError' = error
         /\ IF ~isRetryableError(error)
            THEN /\ rpc' = "threw"
                 /\ outcomes' = Append(outcomes, "terminal")
                 /\ UNCHANGED delays
            ELSE /\ outcomes' = Append(outcomes, "retryable")
                 /\ IF attempt = options.maxRetries
                    THEN rpc' = "threw" /\ UNCHANGED delays
                    ELSE /\ rpc' = "sleep"
                         /\ delays' = Append(delays,
                               calculateBackoff(attempt, options.initialDelay,
                                   options.maxDelay, options.backoffMultiplier, j))
    /\ UNCHANGED <<options, attempt, invocations>>
    /\ UNCHANGED <<backoffVars, classifyVars, queueVars, appVars>>

\* Line 121 and the loop's attempt++: the sleep is over.
RetrySleepDone ==
    /\ rpc = "sleep"
    /\ rpc' = "loop"
    /\ attempt' = attempt + 1
    /\ UNCHANGED <<options, lastError, invocations, outcomes, delays>>
    /\ UNCHANGED <<backoffVars, classifyVars, queueVars, appVars>>

SpecRetryInit ==
    /\ options \in RetryOptionSets
    /\ rpc = "loop" /\ attempt = 0 /\ lastError = NoError
    /\ invocations = 0 /\ outcomes = << >> /\ delays = << >>

(***************************************************************************)
(* RequestQueue (networkUtils.ts:178-269).                                 *)
(* A queue entry is the object {id, fn, timestamp, retries}; the entry     *)
(* UndefinedEntry stands for the value undefined stored in the array.      *)
(* processQueue holds a reference `item` to an entry object across its     *)
(* await: item is a copy of that object's fields and itemIdx the index at  *)
(* which the very same object still sits in this.queue (0: nowhere, after  *)
(* add() replaced or evicted it, or clear() dropped it).                   *)
(***************************************************************************)
\* Capacity of the queue.  The source sets maxQueueSize = 50
\* (networkUtils.ts:185); the model runs the same code on a smaller capacity.
maxQueueSize == 2
\* Date.now() ranges over 0 .. MaxClock.
MaxClock == 1
\* `if (item.retries >= 3)` (networkUtils.ts:241).
RetryCeiling == 3

QueueIds == {"a", "b", "c"}
Fns == {"f1", "f2"}

UndefinedEntry ==
    [id |-> Undefined, fn |-> Undefined, timestamp |-> 0, retries |-> 0]
Entry(id, fn, timestamp, retries) ==
    [id |-> id, fn |-> fn, timestamp |-> timestamp, retries |-> retries]

QueueIdle ==
    /\ queue = << >> /\ processing = FALSE /\ dpc = "idle"
    /\ item = UndefinedEntry /\ itemIdx = 0 /\ clock = 0

\* Array.prototype.shift: the array without its first element.
Shift(q) == IF q = << >> THEN q ELSE Tail(q)

\* Index of the first entry with this id, 0 when none (findIndex's -1).
RECURSIVE FindIndexFrom(_, _, _)
FindIndexFrom(q, id, i) ==
    IF i > Len(q) THEN 0
    ELSE IF q[i].id = id THEN i
    ELSE FindIndexFrom(q, id, i + 1)
FindIndex(q, id) == FindIndexFrom(q, id, 1)

\* findIndex's callback reads item.id: it throws a TypeError on an undefined
\* element met before a match.
FindIndexThrows(q, id) ==
    \E i \in 1 .. Len(q) :
        /\ q[i] = UndefinedEntry
        /\ \A k \in 1 .. i - 1 : q[k].id # id

\* A full test that is off by one: this.queue.length > this.maxQueueSize.
QueueIsFullOffByOne(q) == Len(q) > maxQueueSize

\* if (this.queue.length >= this.maxQueueSize)
QueueIsFull(q) == Len(q) >= maxQueueSize

\* add(id, fn): the array after the call (networkUtils.ts:191-217).
AddResult(q, id, fn, now) ==
    LET q1 == IF QueueIsFull(q) THEN Shift(q) ELSE q
        existingIndex == FindIndex(q1, id)
    IN  IF FindIndexThrows(q1, id) THEN q1
        ELSE IF existingIndex # 0
        THEN [q1 EXCEPT ![existingIndex] =
                 Entry(id, fn, now, q1[existingIndex].retries)]
        ELSE Append(q1, Entry(id, fn, now, 0))

\* Where the object held by processQueue sits after add(id, fn).
AddItemIdx(q, idx, id) ==
    LET shifted == QueueIsFull(q)
        q1 == IF shifted THEN Shift(q) ELSE q
        idx1 == IF shifted /\ idx > 0 THEN idx - 1 ELSE idx
    IN  IF ~FindIndexThrows(q1, id) /\ idx1 # 0 /\ FindIndex(q1, id) = idx1
        THEN 0
        ELSE idx1

QAdd(id, fn) ==
    /\ queue' = AddResult(queue, id, fn, clock)
    /\ itemIdx' = AddItemIdx(queue, itemIdx, id)
    /\ UNCHANGED <<processing, dpc, item, clock>>

Add ==
    /\ \E id \in QueueIds, fn \in Fns : QAdd(id, fn)
    /\ UNCHANGED <<backoffVars, classifyVars, retryVars, appVars>>

\* The head of the while loop (networkUtils.ts:229-233) on array q: leave the
\* loop and reset processing, or take item = q[0] and call item.fn().  On an
\* undefined element item.fn throws inside the try and item.retries++ throws
\* inside the catch, so processQueue rejects with processing still true.
LoopHead(q) ==
    IF q = << >>
    THEN /\ processing' = FALSE /\ dpc' = "idle"
         /\ item' = UndefinedEntry /\ itemIdx' = 0
    ELSE IF q[1] = UndefinedEntry
    THEN /\ processing' = TRUE /\ dpc' = "crashed"
         /\ item' = UndefinedEntry /\ itemIdx' = 0
    ELSE /\ processing' = TRUE /\ dpc' = "awaitFn"
         /\ item' = q[1] /\ itemIdx' = 1

\* No guard at all.
ReturnsAtOnceNever(busy, q) == FALSE

\* A guard that forgets the drain in progress: this.queue.length === 0.
ReturnsAtOnceNoLock(busy, q) == Len(q) = 0

\* if (this.processing || this.queue.length === 0) return;
ReturnsAtOnce(busy, q) == busy \/ Len(q) = 0

\* processQueue() is called (networkUtils.ts:222-227).
ProcessQueue ==
    /\ IF ReturnsAtOnce(processing, queue)
       THEN UNCHANGED <<processing, dpc, item, itemIdx>>
       ELSE LoopHead(queue)
    /\ UNCHANGED <<queue, clock>>
    /\ UNCHANGED <<backoffVars, classifyVars, retryVars, appVars>>

\* await item.fn() resolved: this.queue.shift() (networkUtils.ts:233-235).
QFnResolves ==
    /\ dpc = "awaitFn"
    /\ queue' = Shift(queue)
    /\ LoopHead(queue')
    /\ UNCHANGED clock
    /\ UNCHANGED <<backoffVars, classifyVars, retryVars, appVars>>

\* The array after item.retries++ on the held object.
BumpRetries(q, idx) ==
    IF idx = 0 THEN q ELSE [q EXCEPT ![idx].retries = @ + 1]

\* this.queue.push(this.queue.shift()!): shift() of an empty array is undefined.
MoveHeadToBack(q) ==
    IF q = << >> THEN <<UndefinedEntry>> ELSE Append(Tail(q), Head(q))

\* await item.fn() rejected (networkUtils.ts:236-250).
QFnRejects ==
    /\ dpc = "awaitFn"
    /\ LET q1 == BumpRetries(queue, itemIdx)
       IN  IF item.retries + 1 >= RetryCeiling
           THEN /\ queue' = Shift(q1)
                /\ LoopHead(queue')
           ELSE /\ queue' = MoveHeadToBack(q1)
                /\ dpc' = "sleep"
                /\ item' = UndefinedEntry /\ itemIdx' = 0
                /\ UNCHANGED processing
    /\ UNCHANGED clock
    /\ UNCHANGED <<backoffVars, classifyVars, retryVars, appVars>>

\* await sleep(2000) is over: back to the head of the loop.
QSleepDone ==
    /\ dpc = "sleep"
    /\ LoopHead(queue)
    /\ UNCHANGED <<queue, clock>>
    /\ UNCHANGED <<backoffVars, classifyVars, retryVars, appVars>>

\* clear() (networkUtils.ts:259-261).
Clear ==
    /\ queue' = << >>
    /\ itemIdx' = 0
    /\ UNCHANGED <<processing, dpc, item, clock>>
    /\ UNCHANGED <<backoffVars, classifyVars, retryVars, appVars>>

\* Time passes.
QTick ==
    /\ clock < MaxClock
    /\ clock' = clock + 1
    /\ UNCHANGED <<queue, processing, dpc, item, itemIdx>>
    /\ UNCHANGED <<backoffVars, classifyVars, retryVars, appVars>>

NextRetry ==
    \/ RetryLoop
    \/ RetryFnResolves
    \/ RetryFnRejects
    \/ RetrySleepDone

NextBackoff ==
    \/ CallBackoff
    \/ NextBackoffArgs

(***************************************************************************)
(* The App component (App.tsx, held in FINAL_SUMMARY.md:604-1475): the     *)
(* active timer, its 1-second tick, the periodic save, logout and delete.  *)
(* A handler and the effects React runs for the state it sets are one      *)
(* step.  Time is counted in seconds and kept relative to the present:     *)
(* the code reads lastSaveTimeRef only through Date.now() - current, so    *)
(* the model stores that difference, saturating at SaveInterval.           *)
(***************************************************************************)
\* The sync interval in seconds.  The source's is 30000 ms (`timeSinceLastSave <
\* 30000`, setInterval(saveTimerToServer, 30000)); the model runs the same code
\* on a shorter one.
SaveInterval == 3
\* A periodic save's updateTaskInSupabase call settles within MaxLatency seconds.
MaxLatency == 1
\* At most MaxInFlight periodic flushes are unsettled at once.
MaxInFlight == 2
\* The longest countdown the remote store starts with.
MaxTime == 2

TaskIds == {"t1", "t2"}
\* What localStorage.getItem('activeTaskId') may return at mount.
StoredIds == {Undefined, "t1", "gone"}

EmptyTasks == [t \in {} |-> 0]
Without(f, id) == [t \in DOMAIN f \ {id} |-> f[t]]
RemoveAt(q, i) == [k \in 1 .. Len(q) - 1 |-> IF k < i THEN q[k] ELSE q[k + 1]]

LogoutIdle == [pc |-> "idle", id |-> Undefined, time |-> 0]

\* A timer that forgets clearInterval but resets the ref.
CancelTickLeak(alive, ref) == alive

\* if (timerIntervalRef.current) { clearInterval(timerIntervalRef.current); ... }
\* : the callbacks still scheduled (the ref becomes undefined).
CancelTick(alive, ref) ==
    IF ref # 0 THEN {i \in alive : i.handle # ref} ELSE alive

\* window.setInterval's return value: a handle no scheduled callback has.
FreshHandle(alive) ==
    CHOOSE h \in 1 .. Cardinality(alive) + 1 :
        /\ \A i \in alive : i.handle # h
        /\ \A g \in 1 .. h - 1 : \E i \in alive : i.handle = g

\* The timer effect (FINAL_SUMMARY.md:1082-1124) re-run for a new activeTaskId:
\* the previous run's cleanup, then the body.  The callbacks scheduled after it.
TimerEffectIntervals(alive, ref, newActive) ==
    LET alive1 == CancelTick(alive, ref)
    IN  IF newActive # Undefined
        THEN alive1 \cup {[handle |-> FreshHandle(alive1), taskId |-> newActive]}
        ELSE alive1

\* timerIntervalRef.current after the timer effect.
TimerEffectRef(alive, ref, newActive) ==
    IF newActive # Undefined THEN FreshHandle(CancelTick(alive, ref)) ELSE 0

\* A tick that counts below the floor.
CountDownNoFloor(time) == time - 1

\* Math.max(0, (task.time || 0) - 1)
CountDown(time) == Max(0, time - 1)

\* The tick callback's updater for the captured id (FINAL_SUMMARY.md:1095-1110).
TickTasks(tsks, id) ==
    [t \in DOMAIN tsks |-> IF t = id THEN CountDown(tsks[t]) ELSE tsks[t]]

\* if (newTime === 0 && task.time !== 0): the countdown reached zero.
TickCompletes(tsks, id) ==
    id \in DOMAIN tsks /\ CountDown(tsks[id]) = 0 /\ tsks[id] # 0

\* All scheduled callbacks fire, in the order of their handles.
RECURSIVE TickAll(_, _)
TickAll(tsks, alive) ==
    IF alive = {} THEN tsks
    ELSE LET i == CHOOSE x \in alive : \A y \in alive : x.handle <= y.handle
         IN  TickAll(TickTasks(tsks, i.taskId), alive \ {i})

\* How many of the callbacks raise the completion toast.
RECURSIVE CompletionsOf(_, _)
CompletionsOf(tsks, alive) ==
    IF alive = {} THEN 0
    ELSE LET i == CHOOSE x \in alive : \A y \in alive : x.handle <= y.handle
         IN  (IF TickCompletes(tsks, i.taskId) THEN 1 ELSE 0)
             + CompletionsOf(TickTasks(tsks, i.taskId), alive \ {i})

\* One call of updateTaskInSupabase(id, {time}) made by saveTimerToServer; age is
\* Date.now() - now for the `now` the call was made at.
Flush(id, time) == [id |-> id, time |-> time, age |-> 0]

\* A save that sends the value the task had one tick earlier.
SaveTimerToServerStale(active, tsks, age, infl) ==
    IF age < SaveInterval THEN infl
    ELSE IF active \notin DOMAIN tsks THEN infl
    ELSE Append(infl, [id |-> active, time |-> tsks[active] + 1, age |-> 0])

\* saveTimerToServer (FINAL_SUMMARY.md:1130-1147) up to its await: the calls
\* of updateTaskInSupabase that are unsettled after it.
SaveTimerToServer(active, tsks, age, infl) ==
    IF age < SaveInterval THEN infl
    ELSE IF active \notin DOMAIN tsks THEN infl
    ELSE Append(infl, Flush(active, tsks[active]))

\* The save effect (FINAL_SUMMARY.md:1127-1156) re-run after activeTaskId,
\* tasks or user changed: the unsettled calls after its body.
SaveEffectInflight(active, tsks, usr, age, infl) ==
    IF active = Undefined \/ ~usr THEN infl
    ELSE SaveTimerToServer(active, tsks, age, infl)

\* The save effect's setInterval after its cleanup and body (-1: none).
SaveEffectInterval(active, usr) ==
    IF active = Undefined \/ ~usr THEN -1 ELSE 0

\* The save effect runs on the state the step has set (activeTaskId', tasks',
\* user'); age is Date.now() - lastSaveTimeRef.current at that moment.
RunSaveEffect(infl, age) ==
    /\ inflight' = SaveEffectInflight(activeTaskId', tasks', user', age, infl)
    /\ Len(inflight') <= MaxInFlight
    /\ saveInterval' = SaveEffectInterval(activeTaskId', user')

\* The handlers run while the page is loaded.
Loaded == page = "loaded"

AppFrame ==
    /\ UNCHANGED <<backoffVars, classifyVars, retryVars, queueVars>>
    /\ UNCHANGED <<page, beacons>>

Aged(q) == [k \in 1 .. Len(q) |-> [q[k] EXCEPT !.age = @ + 1]]

\* One second passes: every scheduled 1-second callback fires (FINAL_SUMMARY.md:
\* 1094-1111) and React re-runs the effects for the state it set; with no tick
\* callback scheduled, the save effect's own 30-second interval may come due.
SecondElapses ==
    /\ Loaded
    /\ \A k \in 1 .. Len(inflight) : inflight[k].age < MaxLatency
    /\ lastSaveAge' = Min(lastSaveAge + 1, SaveInterval)
    /\ IF intervals # {}
       THEN /\ tasks' = TickAll(tasks, intervals)
            /\ signal' = CompletionsOf(tasks, intervals)
            /\ activeTaskId' = IF signal' > 0 THEN Undefined ELSE activeTaskId
            /\ IF activeTaskId' # activeTaskId
               THEN /\ intervals' =
                        TimerEffectIntervals(intervals, timerIntervalRef, activeTaskId')
                    /\ timerIntervalRef' =
                        TimerEffectRef(intervals, timerIntervalRef, activeTaskId')
               ELSE UNCHANGED <<intervals, timerIntervalRef>>
            /\ UNCHANGED user
            /\ RunSaveEffect(Aged(inflight), lastSaveAge')
       ELSE /\ UNCHANGED <<tasks, activeTaskId, intervals, timerIntervalRef>>
            /\ signal' = 0
            /\ UNCHANGED user
            /\ IF saveInterval >= 0 /\ saveInterval + 1 = SaveInterval
               THEN /\ inflight' = SaveTimerToServer(activeTaskId, tasks,
                                       lastSaveAge', Aged(inflight))
                    /\ Len(inflight') <= MaxInFlight
                    /\ saveInterval' = 0
               ELSE /\ inflight' = Aged(inflight)
                    /\ saveInterval' = IF saveInterval >= 0 THEN saveInterval + 1 ELSE -1
    /\ errorToast' = FALSE
    /\ UNCHANGED <<logout, pendingDelete, fetching, server, isOnline>>
    /\ AppFrame

\* handleToggleTimer(taskId) (FINAL_SUMMARY.md:1252-1260) and the effects.
ToggleTimer(taskId) ==
    /\ Loaded
    /\ user /\ taskId \in DOMAIN tasks
    /\ activeTaskId' = IF activeTaskId = taskId THEN Undefined ELSE taskId
    /\ intervals' = TimerEffectIntervals(intervals, timerIntervalRef, activeTaskId')
    /\ timerIntervalRef' = TimerEffectRef(intervals, timerIntervalRef, activeTaskId')
    /\ signal' = 0 /\ errorToast' = FALSE
    /\ UNCHANGED <<user, tasks>>
    /\ RunSaveEffect(inflight, lastSaveAge)
    /\ UNCHANGED <<lastSaveAge, logout, pendingDelete, fetching, server, isOnline>>
    /\ AppFrame

HandleToggleTimer == \E taskId \in TaskIds : ToggleTimer(taskId)

\* checkAuth / handleAuthSuccess set the user (FINAL_SUMMARY.md:868-871,
\* 950-962); the data effect then calls fetchTasks (982-996).  The model
\* follows one session: the user signs in once.
AuthSuccess ==
    /\ Loaded
    /\ ~user /\ fetching = "no"
    /\ user' = TRUE
    /\ fetching' = "pending"
    /\ signal' = 0 /\ errorToast' = FALSE
    /\ UNCHANGED <<tasks, activeTaskId>>
    /\ RunSaveEffect(inflight, lastSaveAge)
    /\ UNCHANGED <<timerIntervalRef, intervals, lastSaveAge, logout, pendingDelete,
                   server, isOnline>>
    /\ AppFrame

\* fetchTasks resolved: setTasks(newTasks) (FINAL_SUMMARY.md:908-919).
FetchTasksResolves ==
    /\ Loaded
    /\ fetching = "pending"
    /\ fetching' = "done"
    /\ tasks' = server
    /\ signal' = 0 /\ errorToast' = FALSE
    /\ UNCHANGED <<user, activeTaskId>>
    /\ RunSaveEffect(inflight, lastSaveAge)
    /\ UNCHANGED <<timerIntervalRef, intervals, lastSaveAge, logout, pendingDelete,
                   server, isOnline>>
    /\ AppFrame

\* fetchTasks rejected: an error toast (FINAL_SUMMARY.md:931-934).
FetchTasksRejects ==
    /\ Loaded
    /\ fetching = "pending"
    /\ fetching' = "done"
    /\ signal' = 0 /\ errorToast' = TRUE
    /\ UNCHANGED <<user, tasks, activeTaskId, timerIntervalRef, intervals, lastSaveAge,
                   saveInterval, inflight, logout, pendingDelete, server, isOnline>>
    /\ AppFrame

\* A periodic flush's updateTaskInSupabase resolved: lastSaveTimeRef.current =
\* now, the `now` taken when saveTimerToServer began (FINAL_SUMMARY.md:1141-1142).
\* The update of a row the store does not hold fails (.single()).
FlushResolves ==
    /\ Loaded
    /\ \E k \in 1 .. Len(inflight) :
         /\ inflight[k].id \in DOMAIN server
         /\ server' = [server EXCEPT ![inflight[k].id] = inflight[k].time]
         /\ lastSaveAge' = inflight[k].age
         /\ inflight' = RemoveAt(inflight, k)
    /\ signal' = 0 /\ errorToast' = FALSE
    /\ UNCHANGED <<user, tasks, activeTaskId, timerIntervalRef, intervals,
                   saveInterval, logout, pendingDelete, fetching, isOnline>>
    /\ AppFrame

\* It rejected with error: console.error only (FINAL_SUMMARY.md:1143-1146).
FlushRejectsWith(k, error) ==
    /\ Loaded
    /\ k \in 1 .. Len(inflight)
    /\ inflight' = RemoveAt(inflight, k)
    /\ signal' = 0 /\ errorToast' = FALSE
    /\ UNCHANGED <<user, tasks, activeTaskId, timerIntervalRef, intervals, lastSaveAge,
                   saveInterval, logout, pendingDelete, fetching, server, isOnline>>
    /\ AppFrame

\* The failures the remote store answers a flush with: 503 and 400.
FlushErrors == {Err("Error", 503, "bad request"), Err("Error", 400, "bad request")}

FlushRejects == \E k \in 1 .. Len(inflight), error \in FlushErrors : FlushRejectsWith(k, error)

\* handleLogout up to its first await (FINAL_SUMMARY.md:873-893): the flush of
\* the active task, or, with none to save, the interval is cleared and signOut
\* is called.  The model's user asks for one logout or deletion at a time.
LogoutBegins ==
    /\ Loaded
    /\ user /\ logout.pc = "idle" /\ pendingDelete = << >>
    /\ IF activeTaskId # Undefined /\ activeTaskId \in DOMAIN tasks
       THEN /\ logout' = [pc |-> "saving", id |-> activeTaskId,
                          time |-> tasks[activeTaskId]]
            /\ UNCHANGED <<intervals, timerIntervalRef>>
       ELSE /\ logout' = [LogoutIdle EXCEPT !.pc = "signingOut"]
            /\ intervals' = CancelTick(intervals, timerIntervalRef)
            /\ timerIntervalRef' = 0
    /\ signal' = 0 /\ errorToast' = FALSE
    /\ UNCHANGED <<user, tasks, activeTaskId, lastSaveAge, saveInterval, inflight,
                   pendingDelete, fetching, server, isOnline>>
    /\ AppFrame

\* The logout flush settled, well (ok) or not: the catch swallows the failure;
\* the interval is cleared and signOut is called (FINAL_SUMMARY.md:878-893).
LogoutFlushSettles(ok) ==
    /\ Loaded
    /\ logout.pc = "saving"
    /\ IF ok
       THEN /\ logout.id \in DOMAIN server
            /\ server' = [server EXCEPT ![logout.id] = logout.time]
       ELSE UNCHANGED server
    /\ logout' = [LogoutIdle EXCEPT !.pc = "signingOut"]
    /\ intervals' = CancelTick(intervals, timerIntervalRef)
    /\ timerIntervalRef' = 0
    /\ signal' = 0 /\ errorToast' = FALSE
    /\ UNCHANGED <<user, tasks, activeTaskId, lastSaveAge, saveInterval, inflight,
                   pendingDelete, fetching, isOnline>>
    /\ AppFrame

LogoutFlushResolves == LogoutFlushSettles(TRUE)
LogoutFlushRejects == LogoutFlushSettles(FALSE)

\* signOut resolved: localStorage.clear() and the state is reset
\* (FINAL_SUMMARY.md:895-904); the effects run for the new state.
SignOutResolves ==
    /\ Loaded
    /\ logout.pc = "signingOut"
    /\ logout' = LogoutIdle
    /\ user' = FALSE
    /\ tasks' = EmptyTasks
    /\ activeTaskId' = Undefined
    /\ IF activeTaskId # Undefined
       THEN /\ intervals' = TimerEffectIntervals(intervals, timerIntervalRef, Undefined)
            /\ timerIntervalRef' = TimerEffectRef(intervals, timerIntervalRef, Undefined)
       ELSE UNCHANGED <<intervals, timerIntervalRef>>
    /\ signal' = 0 /\ errorToast' = FALSE
    /\ RunSaveEffect(inflight, lastSaveAge)
    /\ UNCHANGED <<lastSaveAge, pendingDelete, fetching, server, isOnline>>
    /\ AppFrame

\* signOut rejected: handleLogout ends there, with the interval cleared and
\* the state as it was.
SignOutRejects ==
    /\ Loaded
    /\ logout.pc = "signingOut"
    /\ logout' = LogoutIdle
    /\ signal' = 0 /\ errorToast' = FALSE
    /\ UNCHANGED <<user, tasks, activeTaskId, timerIntervalRef, intervals, lastSaveAge,
                   saveInterval, inflight, pendingDelete, fetching, server, isOnline>>
    /\ AppFrame

\* handleDeleteTask(taskId) up to its await (FINAL_SUMMARY.md:1262-1274); the
\* call keeps the `tasks` of the render it was made in.
DeleteBegins(taskId) ==
    /\ Loaded
    /\ user /\ taskId \in DOMAIN tasks
    /\ pendingDelete = << >> /\ logout.pc = "idle"
    /\ pendingDelete' = <<[id |-> taskId, snapshot |-> tasks]>>
    /\ IF activeTaskId = taskId
       THEN /\ activeTaskId' = Undefined
            /\ intervals' = CancelTick(intervals, timerIntervalRef)
            /\ timerIntervalRef' = 0
               ELSE UNCHANGED <<activeTaskId, intervals, timerIntervalRef>>
    /\ signal' = 0 /\ errorToast' = FALSE
    /\ UNCHANGED <<user, tasks>>
    /\ IF activeTaskId = taskId
       THEN RunSaveEffect(inflight, lastSaveAge)
       ELSE UNCHANGED <<inflight, saveInterval>>
    /\ UNCHANGED <<lastSaveAge, logout, fetching, server, isOnline>>
    /\ AppFrame

HandleDeleteTask == \E taskId \in TaskIds : DeleteBegins(taskId)

\* deleteTaskFromSupabase resolved: setTasks(tasks.filter(...)) on the kept
\* `tasks` (FINAL_SUMMARY.md:1275-1276).
DeleteResolves ==
    /\ Loaded
    /\ pendingDelete # << >>
    /\ pendingDelete' = << >>
    /\ server' = Without(server, pendingDelete[1].id)
    /\ tasks' = Without(pendingDelete[1].snapshot, pendingDelete[1].id)
    /\ signal' = 0 /\ errorToast' = FALSE
    /\ UNCHANGED <<user, activeTaskId>>
    /\ RunSaveEffect(inflight, lastSaveAge)
    /\ UNCHANGED <<timerIntervalRef, intervals, lastSaveAge, logout, fetching, isOnline>>
    /\ AppFrame

\* It rejected: an error toast (FINAL_SUMMARY.md:1277-1279).
DeleteRejects ==
    /\ Loaded
    /\ pendingDelete # << >>
    /\ pendingDelete' = << >>
    /\ signal' = 0 /\ errorToast' = TRUE
    /\ UNCHANGED <<user, tasks, activeTaskId, timerIntervalRef, intervals, lastSaveAge,
                   saveInterval, inflight, logout, fetching, server, isOnline>>
    /\ AppFrame

\* handleOnline / handleOffline (FINAL_SUMMARY.md:1020-1038): the state isOnline
\* and a toast.  Nothing but the render reads isOnline, so the two handlers are
\* run beside the RequestQueue, in SpecQueue.
HandleOnline ==
    /\ Loaded
    /\ ~isOnline
    /\ isOnline' = TRUE
    /\ UNCHANGED <<user, tasks, activeTaskId, timerIntervalRef, intervals, lastSaveAge,
                   saveInterval, inflight, logout, pendingDelete, fetching, server,
                   signal, errorToast, page, beacons>>
    /\ UNCHANGED <<backoffVars, classifyVars, retryVars, queueVars>>

HandleOffline ==
    /\ Loaded
    /\ isOnline
    /\ isOnline' = FALSE
    /\ UNCHANGED <<user, tasks, activeTaskId, timerIntervalRef, intervals, lastSaveAge,
                   saveInterval, inflight, logout, pendingDelete, fetching, server,
                   signal, errorToast, page, beacons>>
    /\ UNCHANGED <<backoffVars, classifyVars, retryVars, queueVars>>

\* A handler that sends the snapshot a second time.
SendBeaconTwice(active, tsks) ==
    IF active # Undefined /\ active \in DOMAIN tsks
    THEN <<[id |-> active, time |-> tsks[active]], [id |-> active, time |-> tsks[active]]>>
    ELSE << >>

\* handleBeforeUnload's navigator.sendBeacon calls (FINAL_SUMMARY.md:1042-1062):
\* one with the active task's fields when the task is in `tasks`.
SendBeacon(active, tsks) ==
    IF active # Undefined /\ active \in DOMAIN tsks
    THEN <<[id |-> active, time |-> tsks[active]]>>
    ELSE << >>

\* The page is torn down: beforeunload fires (FINAL_SUMMARY.md:1040-1067) and
\* no handler runs after it.  It calls no updateTaskInSupabase.
BeforeUnload ==
    /\ Loaded
    /\ page' = "unloaded"
    /\ beacons' = SendBeacon(activeTaskId, tasks)
    /\ UNCHANGED <<user, tasks, activeTaskId, timerIntervalRef, intervals, lastSaveAge,
                   saveInterval, inflight, logout, pendingDelete, fetching, server,
                   isOnline, signal, errorToast>>
    /\ UNCHANGED <<backoffVars, classifyVars, retryVars, queueVars>>

\* The App after mount (FINAL_SUMMARY.md:821-857): no user, no tasks, the
\* activeTaskId read from localStorage, and the timer effect run once for it.
AppInit(servers) ==
    /\ user = FALSE
    /\ tasks = EmptyTasks
    /\ activeTaskId \in StoredIds
    /\ intervals = TimerEffectIntervals({}, 0, activeTaskId)
    /\ timerIntervalRef = TimerEffectRef({}, 0, activeTaskId)
    /\ lastSaveAge = 0
    /\ saveInterval = -1
    /\ inflight = << >>
    /\ logout = LogoutIdle
    /\ pendingDelete = << >>
    /\ fetching = "no"
    /\ server \in servers
    /\ isOnline = TRUE
    /\ signal = 0
    /\ errorToast = FALSE
    /\ page = "loaded"
    /\ beacons = << >>

AppIdle ==
    /\ AppInit({EmptyTasks})
    /\ activeTaskId = Undefined

\* The remote store at mount: t1 with the longest countdown, t2 with one
\* second left.
Servers == {[t \in TaskIds |-> IF t = "t1" THEN MaxTime ELSE 1]}

Init == AppInit(Servers) /\ BackoffIdle /\ ClassifyIdle /\ RetryIdle /\ QueueIdle

Next ==
    \/ SecondElapses
    \/ HandleToggleTimer
    \/ AuthSuccess
    \/ FetchTasksResolves
    \/ FetchTasksRejects
    \/ FlushResolves
    \/ FlushRejects
    \/ LogoutBegins
    \/ LogoutFlushResolves
    \/ LogoutFlushRejects
    \/ SignOutResolves
    \/ SignOutRejects
    \/ HandleDeleteTask
    \/ DeleteResolves
    \/ DeleteRejects
    \/ BeforeUnload

NextQueue ==
    \/ Add
    \/ ProcessQueue
    \/ QFnResolves
    \/ QFnRejects
    \/ QSleepDone
    \/ Clear
    \/ QTick
    \/ HandleOnline
    \/ HandleOffline

Spec == Init /\ [][Next]_vars

InitBackoff == SpecBackoffInit /\ ClassifyIdle /\ RetryIdle /\ QueueIdle /\ AppIdle
SpecBackoff == InitBackoff /\ [][NextBackoff]_vars

InitRetry == SpecRetryInit /\ BackoffIdle /\ ClassifyIdle /\ QueueIdle /\ AppIdle
SpecRetry == InitRetry /\ [][NextRetry]_vars

InitQueue == QueueIdle /\ BackoffIdle /\ ClassifyIdle /\ RetryIdle /\ AppIdle
SpecQueue == InitQueue /\ [][NextQueue]_vars

\* SpecSync: the App's timer and periodic save in the runs where every flush
\* attempt succeeds, on countdowns longer than a sync interval.
SyncServers == {[t \in TaskIds |-> IF t = "t1" THEN SaveInterval + MaxTime ELSE MaxTime]}

InitSync == AppInit(SyncServers) /\ BackoffIdle /\ ClassifyIdle /\ RetryIdle /\ QueueIdle

NextSync ==
    \/ SecondElapses
    \/ HandleToggleTimer
    \/ AuthSuccess
    \/ FetchTasksResolves
    \/ FlushResolves
    \/ BeforeUnload

SpecSync == InitSync /\ [][NextSync]_vars

\* SpecDrain: a RequestQueue whose callers add entries only between drains and
\* whose operations all settle; clear() may be called at any time.
AddWhenIdle == dpc = "idle" /\ Add

NextDrain ==
    \/ AddWhenIdle
    \/ ProcessQueue
    \/ QFnResolves
    \/ QFnRejects
    \/ QSleepDone
    \/ Clear
    \/ QTick

\* Every awaited operation settles and every sleep(2000) ends.
FairDrain == WF_vars(QFnResolves \/ QFnRejects) /\ WF_vars(QSleepDone)

SpecDrain == InitQueue /\ [][NextDrain]_vars /\ FairDrain

NextClassify ==
    \/ Classify
    \/ NextError

InitClassify == SpecClassifyInit /\ BackoffIdle /\ RetryIdle /\ QueueIdle /\ AppIdle
SpecClassify == InitClassify /\ [][NextClassify]_vars

(***************************************************************************)
(* Properties of retryWithBackoff, RequestQueue and calculateBackoff.      *)
(***************************************************************************)
\* C2: one retryWithBackoff execution invokes fn at most maxRetries + 1 times;
\* an invocation that fails with a non-retryable error, or succeeds, is the last
\* one, so a first attempt failing with a non-retryable error is the only one.
C2_InvocationBound ==
    /\ invocations <= options.maxRetries + 1
    /\ Len(outcomes) <= invocations
    /\ \A i \in 1 .. Len(outcomes) - 1 : outcomes[i] = "retryable"
    /\ \A i \in 1 .. Len(outcomes) :
         outcomes[i] = "terminal" => rpc = "threw" /\ invocations = i

\* C2 witness: a retryable failure, a retry, then a non-retryable failure ends
\* the execution after two invocations although more were allowed.
C2_Witness ==
    /\ options.maxRetries = DefaultMaxRetries
    /\ outcomes = <<"retryable", "terminal">>
    /\ rpc = "threw" /\ invocations = 2

\* C3: the queue never holds more than maxQueueSize entries.
C3_QueueBound == Len(queue) <= maxQueueSize

\* C3 witness: the queue is full while a drain awaits an operation, and an
\* add() made during the await has replaced or evicted the awaited entry.
C3_Witness ==
    /\ Len(queue) = maxQueueSize
    /\ dpc = "awaitFn" /\ itemIdx = 0

\* C4: add(id, fn) for a queued id keeps the queue's length and keeps every
\* other entry in the queue, also when the queue is at capacity.
C4_ReplaceInPlace ==
    [][\A id \in QueueIds, fn \in Fns :
          (QAdd(id, fn) /\ ~FindIndexThrows(queue, id) /\ FindIndex(queue, id) # 0)
          => /\ Len(queue') = Len(queue)
             /\ \A k \in 1 .. Len(queue) :
                  queue[k].id # id => \E n \in 1 .. Len(queue') : queue'[n] = queue[k]]_vars

\* C6 as stated: every result of calculateBackoff lies in [floor, 1.3 * floor)
\* for floor = min(d0 * m^k, dmax).
C6_HalfOpenRange ==
    bResult # << >> =>
        LET floor == Min(bArgs.d0 * Pow(bArgs.m, bArgs.k), bArgs.dmax)
        IN  /\ floor * BackoffScale <= bResult[1]
            /\ 10 * bResult[1] < 13 * floor * BackoffScale

\* C6: every result of calculateBackoff lies in [floor, 1.3 * floor) when
\* floor = min(d0 * m^k, dmax) is positive, and is 0 when floor is 0.
C6_BackoffRange ==
    bResult # << >> =>
        LET floor == Min(bArgs.d0 * Pow(bArgs.m, bArgs.k), bArgs.dmax)
        IN  IF floor = 0 THEN bResult[1] = 0
            ELSE /\ floor * BackoffScale <= bResult[1]
                 /\ 10 * bResult[1] < 13 * floor * BackoffScale

\* C6 witness: the last attempt with the default options and a jitter above 0.
C6_Witness ==
    /\ bArgs = [k |-> MaxAttempt, d0 |-> DefaultInitialDelay,
                dmax |-> DefaultMaxDelay, m |-> DefaultBackoffMultiplier]
    /\ bResult # << >>
    /\ bResult[1] > DefaultInitialDelay * Pow(DefaultBackoffMultiplier, MaxAttempt) * BackoffScale

(***************************************************************************)
(* Properties of the App's timer and periodic save.                        *)
(***************************************************************************)
\* C1: at most one 1-second tick callback is scheduled at any instant, and it
\* is the one whose handle timerIntervalRef holds.
C1_OneTickCallback ==
    /\ Cardinality(intervals) <= 1
    /\ \A i \in intervals : i.handle = timerIntervalRef

\* C1 witness: t1 was started and ticked, then t2 was started without a stop;
\* the only callback scheduled is t2's.
C1_Witness ==
    /\ activeTaskId = "t2"
    /\ "t1" \in DOMAIN tasks /\ tasks["t1"] = MaxTime - 1
    /\ intervals = {[handle |-> timerIntervalRef, taskId |-> "t2"]}

\* C5: a tick changes the time S of the task the callback was started for to
\* S - 1, or leaves it 0, and changes the time of no other task.
C5_TickCountsDown ==
    [][(SecondElapses /\ intervals # {}) =>
          /\ DOMAIN tasks' = DOMAIN tasks
          /\ \A t \in DOMAIN tasks :
               tasks'[t] = IF t # activeTaskId THEN tasks[t]
                           ELSE IF tasks[t] > 0 THEN tasks[t] - 1
                           ELSE 0]_vars

\* C5 witness: t1 is active and has ticked once, t2 still has its second.
C5_Witness ==
    /\ activeTaskId = "t1" /\ intervals # {}
    /\ DOMAIN tasks = TaskIds
    /\ tasks["t1"] = MaxTime - 1 /\ tasks["t2"] = 1

\* C7: a tick after which the active task's time is 0 ends Idle, with no tick
\* callback scheduled and one completion toast raised.
C7_ZeroEndsIdle ==
    [][(/\ SecondElapses /\ intervals # {}
        /\ activeTaskId \in DOMAIN tasks' /\ tasks'[activeTaskId] = 0)
       => (activeTaskId' = Undefined /\ intervals' = {} /\ signal' = 1)]_vars

\* C8: handleToggleTimer on the active task makes one call that saves the
\* stopped task's time.
C8_StopFlushes ==
    [][\A taskId \in TaskIds :
          (ToggleTimer(taskId) /\ activeTaskId = taskId)
          => \E k \in 1 .. Len(inflight') :
                 /\ inflight'[k].id = taskId /\ inflight'[k].time = tasks[taskId]
                 /\ Len(inflight') = Len(inflight) + 1]_vars

\* C9: starting a timer makes no save call; the first one comes a sync
\* interval after the start.
C9_NoFlushAtStart ==
    [][\A taskId \in TaskIds :
          (ToggleTimer(taskId) /\ activeTaskId' = taskId) => inflight' = inflight]_vars

\* C10: a periodic save that was answered 503 is called again or is put on the
\* RequestQueue.
C10_RetriedOrQueued ==
    [][(\E k \in 1 .. Len(inflight) : FlushRejectsWith(k, Err("Error", 503, "bad request")))
       => (Len(inflight') >= Len(inflight) \/ queue' # << >>)]_vars

\* C11: a periodic save answered 400 is surfaced: the step that takes the
\* rejection raises an error toast.
C11_TerminalSurfaced ==
    [][(\E k \in 1 .. Len(inflight) : FlushRejectsWith(k, Err("Error", 400, "bad request")))
       => errorToast']_vars

C13_CallbackIffActive ==
    IF activeTaskId # Undefined THEN Cardinality(intervals) = 1 ELSE intervals = {}

C15_SingleDrain ==
    /\ [](dpc # "idle" => processing)
    /\ [][(ProcessQueue /\ dpc # "idle") => UNCHANGED queueVars]_vars

\* C15 witness: a drain is asleep between two attempts with entries queued,
\* where a second processQueue() would find work to do.
C15_Witness ==
    /\ dpc = "sleep" /\ processing
    /\ Len(queue) = maxQueueSize

\* C16: the entry a drain removes when an operation succeeds is the entry whose
\* operation it invoked.
C16_RemovesWhatItInvoked ==
    [][(QFnResolves /\ queue # << >>)
       => (queue[1].id = item.id /\ queue[1].fn = item.fn)]_vars

\* C17: when an operation fails below the retry ceiling with entries queued, the
\* failed entry is the one moved to the tail, and another entry, if any, is
\* invoked next.
C17_FailedEntryToTail ==
    [][(QFnRejects /\ queue # << >> /\ item.retries + 1 < RetryCeiling)
       => /\ queue' # << >>
          /\ queue'[Len(queue')].id = item.id
          /\ Len(queue') > 1 => queue'[1].id # item.id]_vars

\* C18: when the page goes online with entries queued and no drain under way,
\* a drain starts.
C18_OnlineDrains ==
    [][(HandleOnline /\ queue # << >> /\ ~processing) => processing']_vars

\* C19: deleting the active task starts a flush of that task's snapshot before
\* the timer state is cleared.
C19_DeleteFlushesActive ==
    [][\A taskId \in TaskIds :
         (DeleteBegins(taskId) /\ activeTaskId = taskId)
         => \E k \in 1 .. Len(inflight') :
              /\ k > Len(inflight)
              /\ inflight'[k].id = taskId]_vars

C21_LossWithinInterval ==
    (/\ user /\ activeTaskId \in DOMAIN tasks /\ activeTaskId \in DOMAIN server
     /\ intervals # {} /\ inflight = << >>)
    => server[activeTaskId] - tasks[activeTaskId] <= SaveInterval

(***************************************************************************)
(* Properties of isRetryableError.                                         *)
(***************************************************************************)
\* The messages of a connectivity failure (networkUtils.ts:49-52).
ConnectivityMessages ==
    {"Failed to fetch", "Network request failed",
     "net::ERR_INTERNET_DISCONNECTED", "net::ERR_NETWORK_CHANGED"}

\* A failure named as a timeout / abort, or as a network TypeError.
NamedTransient(error) ==
    \/ error.name = "AbortError"
    \/ error.name = "TypeError" /\ error.message \in {"fetch failed", "Failed to fetch"}

C23_MissingTaskEndsIdle ==
    [][(/\ SecondElapses
        /\ fetching = "done"
        /\ activeTaskId # Undefined
        /\ activeTaskId \notin DOMAIN tasks /\ activeTaskId \notin DOMAIN server)
       => (activeTaskId' = Undefined /\ intervals' = {})]_vars

(***************************************************************************)
(* Properties of RequestQueue, continued.                                  *)
(***************************************************************************)
\* C24: processQueue() called on an empty queue changes nothing: no operation
\* is invoked, and the queue and this.processing are as before, whether or not
\* a drain is under way.
C24_EmptyDrainNoOp ==
    [][(ProcessQueue /\ queue = << >>) => UNCHANGED queueVars]_vars

\* An empty queue with the guard held: clear() emptied it while a drain awaits
\* an operation.
C24_Witness == queue = << >> /\ processing /\ dpc = "awaitFn"

(***************************************************************************)
(* Properties of the periodic save, continued.                             *)
(***************************************************************************)
\* C25: at most one updateTaskInSupabase call for the active task is unsettled
\* at any instant.
C25_OneFlushInFlight ==
    Cardinality({k \in 1 .. Len(inflight) : inflight[k].id = activeTaskId}) <= 1

C27_DropsTheFailedEntry ==
    [][(QFnRejects /\ queue # << >> /\ item.retries + 1 >= RetryCeiling)
       => (queue[1].id = item.id /\ queue[1].retries + 1 >= RetryCeiling)]_vars

\* C28: when add() inserts a new id into a full queue of well-formed entries,
\* the entry it evicts is one with the earliest timestamp among those queued.
C28_EvictsEarliest ==
    [][(/\ Add
        /\ QueueIsFull(queue)
        /\ \A k \in 1 .. Len(queue) : queue[k] # UndefinedEntry
        /\ \E id \in QueueIds : FindIndex(queue, id) = 0 /\ FindIndex(queue', id) # 0)
       => /\ Len(queue') = Len(queue)
          /\ \A k \in 1 .. Len(queue) : queue[1].timestamp <= queue[k].timestamp]_vars

\* C29: with operations that settle and no add() during the drain, a drain that
\* has begun ends with the queue empty and this.processing released.
C29_DrainTerminates == processing ~> (~processing /\ dpc = "idle" /\ queue = << >>)

\* C30: whatever clear() and the in-flight operation do, processQueue never
\* throws with this.processing held, and the queue never holds an undefined
\* element.
C30_ClearKeepsQueueSound ==
    /\ dpc # "crashed"
    /\ \A k \in 1 .. Len(queue) : queue[k] # UndefinedEntry

====
